---- MODULE Spec2Model ----
(***************************************************************************)
(* A model of the chaos-experiment orchestrator of QRAIOP                  *)
(* (src/src/chaos/chaos_engine.py, class ChaosEngine).                     *)
(*                                                                         *)
(* ChaosEngine runs on one asyncio event loop: a coroutine runs without    *)
(* interruption until it reaches an await that really suspends.  In        *)
(* run_experiment these are asyncio.sleep(duration) (line 143) and the     *)
(* asyncio.sleep(5) of _wait_for_pod_recovery (line 332); every other      *)
(* awaited coroutine (_validate_steady_state, _inject_failure,             *)
(* _collect_metrics, _recover_network, ...) contains only synchronous      *)
(* calls and returns without yielding.  The variable `active` names the    *)
(* task that holds the event loop (0: none, every task is suspended or     *)
(* finished); a task steps only when it holds the loop or nobody does.     *)
(*                                                                         *)
(* The cluster and the HTTP endpoints are the environment: each list call  *)
(* and each check returns a value chosen nondeterministically.             *)
(***************************************************************************)
EXTENDS Integers, Sequences, FiniteSets, TLC

\* ------------------------------------------------------------------ bounds
\* Number of run_experiment calls.
MaxExp == 2
\* Total number of abort_experiment calls.
MaxAborts == 2
\* Largest number of pods a list call of an experiment returns.
MaxPods == 2
\* Polls of _wait_for_pod_recovery before the 300 s timeout is certain.
MaxPolls == 2
\* Largest number of matching pods _inject_pod_kill is run on alone.
MaxMatch == 5

\* --------------------------------------------------------------- constants
\* ExperimentStatus (lines 25-31).
ExperimentStatus == {"pending", "running", "completed", "failed", "aborted"}

\* FailureType (lines 33-42).
FailureType ==
    {"pod_kill", "network_delay", "network_partition", "cpu_stress",
     "memory_stress", "disk_fill", "dns_chaos", "service_mesh_fault"}

\* The failure kinds the runs of the model draw their configuration from: one
\* per branch of _inject_failure's and _recover_from_failure's dispatch.
RunKinds == {"pod_kill", "network_delay", "cpu_stress", "disk_fill"}

\* ExperimentTarget.percentage values the runs of the model draw from.
RunPercentages == {50}

\* Experiment ids (uuid4 strings, line 113): 1..MaxExp in order of allocation.
Ids == 1 .. MaxExp

\* An id that run_experiment never allocates (any string that is no uuid of
\* this engine), for abort_experiment calls on an unknown id.
Ghost == 0

\* Error messages (str(e) of the exceptions raised).
ErrSteadyState == "Steady state validation failed before experiment"
ErrNoPods == "No pods found"
ErrNotImplemented == "not implemented"
ErrApi == "api error"
ErrTimeout == "Pod recovery timeout"
ErrHypothesis == "object has no attribute"

NoError == "none"

VARIABLES
    pc,          \* pc[e]: where run_experiment of experiment e stands
    cfg,         \* cfg[e]: the ExperimentConfig passed to run_experiment
    res,         \* res[e]: the ExperimentResult object of experiment e
    running,     \* keys of self.running_experiments
    history,     \* self.experiment_history: references to Result objects
    active,      \* the task holding the event loop (0: none)
    exc,         \* exc[e]: message of the exception propagating in run e
    polls,       \* polls[e]: sleeps done by the current recovery wait of e
    calls,       \* calls[e]: calls of _inject_failure and _recover_from_failure,
                 \* pods deleted, the target the last recovery poll listed,
                 \* and the abort_experiment(e) calls that raised
    abortRets,   \* abortRets[i]: the values abort_experiment(i) returned
    pk,          \* _inject_pod_kill run alone: inputs and outcome
    ss,          \* _validate_steady_state run alone: inputs and outcome
    ar,          \* the AutoRecoverySystem
    lk,          \* the last get_experiment_status / list_experiments call
    ag           \* agent.py run alone: arguments and output

vars == <<pc, cfg, res, running, history, active, exc, polls, calls,
          abortRets, pk, ss, ar, lk, ag>>

\* The variables no step of the engine touches.
aux == <<pk, ss, ar, lk, ag>>

engineVars == <<pc, cfg, res, running, history, active, exc, polls,
                calls, abortRets>>

\* ------------------------------------------------------------ data model
\* ExperimentTarget (lines 44-49): the namespace and the label selector, as
\* the string line 209 joins it to.  The pod-kill runs of the model draw
\* their target from RunTargets.
RunTargets == {[namespace |-> "prod", selector |-> "app=api"]}

DefaultTarget == [namespace |-> "default", selector |-> "app=web"]

\* The target of the temporary config of abort_experiment (line 515):
\* ExperimentTarget(namespace="default", selector={}).
AbortTarget == [namespace |-> "default", selector |-> ""]

NoTarget == [namespace |-> "none", selector |-> "none"]

\* ExperimentConfig (lines 51-61): failure_type, target and whether
\* steady_state_hypothesis is given (truthy).
Configs ==
    [kind : RunKinds \ {"pod_kill"}, percentage : {100}, hyp : BOOLEAN,
     target : {DefaultTarget}]
    \cup [kind : {"pod_kill"}, percentage : RunPercentages, hyp : BOOLEAN,
          target : RunTargets]

NoConfig == [kind |-> "none", percentage |-> 100, hyp |-> FALSE,
             target |-> NoTarget]

\* ExperimentResult as run_experiment creates it (lines 115-120, defaults of
\* lines 70-77).  end_time counts the datetime.now() stamps written to it
\* (0: None); before/after are "none", "valid" or "invalid"; metrics tells
\* whether the metrics snapshot was stored.
NewResult ==
    [status |-> "pending", end_time |-> 0, before |-> "none",
     after |-> "none", injected |-> <<>>, recovery |-> <<>>,
     metrics |-> FALSE, error |-> NoError]

Verdict(valid) == IF valid THEN "valid" ELSE "invalid"

Max(a, b) == IF a >= b THEN a ELSE b

\* ------------------------------------------------------------- injection
\* Line 222: max(1, int(len(pods.items) * percentage / 100)).  The float
\* quotient of two small non-negative integers truncates to the floor.
NumToKillMutNoMax(n, p) == (n * p) \div 100
NumToKill(n, p) == Max(1, (n * p) \div 100)

\* pods.items[:num_to_kill] of a listing of n pods (named by position).
FirstPodsMutLast(n, k) ==
    [i \in 1 .. (IF k < n THEN k ELSE n) |-> n - (IF k < n THEN k ELSE n) + i]
FirstPods(n, k) == [i \in 1 .. (IF k < n THEN k ELSE n) |-> i]

\* _inject_pod_kill (lines 206-244) on a listing of the n pods that match
\* target t, with percentage p; the record keeps the namespace and selector
\* (lines 236-237).  failAt = 0: no API call fails; failAt = n + 1: the list call raises;
\* 1 <= failAt <= n: the failAt-th delete call raises.  deleted counts the
\* delete calls that succeeded and names lists the pods they deleted, in call
\* order (a pod is named by its place in the listing).
InjectPodKill(t, n, p, failAt) ==
    IF failAt = n + 1
    THEN [ok |-> FALSE, err |-> ErrApi, deleted |-> 0, names |-> <<>>,
          rec |-> <<>>]
    ELSE IF n = 0
    THEN [ok |-> FALSE, err |-> ErrNoPods, deleted |-> 0, names |-> <<>>,
          rec |-> <<>>]
    ELSE LET toKill == FirstPods(n, NumToKill(n, p))
         IN  IF failAt \in 1 .. Len(toKill)
             THEN [ok |-> FALSE, err |-> ErrApi, deleted |-> failAt - 1,
                   names |-> SubSeq(toKill, 1, failAt - 1), rec |-> <<>>]
             ELSE [ok |-> TRUE, err |-> NoError, deleted |-> Len(toKill),
                   names |-> toKill,
                   rec |-> <<[type |-> "pod_kill", target |-> t,
                              killed_pods |-> toKill]>>]

\* _inject_failure (lines 189-204): the dispatch on config.failure_type.
InjectFailureMutRecord(c, n, failAt) ==
    IF c.kind = "pod_kill"
    THEN InjectPodKill(c.target, n, c.percentage, failAt)
    ELSE IF c.kind \in {"network_delay", "network_partition", "cpu_stress",
                        "memory_stress"}
    THEN [ok |-> TRUE, err |-> NoError, deleted |-> 0, names |-> <<>>,
          rec |-> <<[type |-> c.kind, target |-> c.target,
                     killed_pods |-> <<>>]>>]
    ELSE [ok |-> TRUE, err |-> NoError, deleted |-> 0, names |-> <<>>,
          rec |-> <<[type |-> c.kind, target |-> c.target,
                     killed_pods |-> <<>>]>>]
InjectFailure(c, n, failAt) ==
    IF c.kind = "pod_kill"
    THEN InjectPodKill(c.target, n, c.percentage, failAt)
    ELSE IF c.kind \in {"network_delay", "network_partition", "cpu_stress",
                        "memory_stress"}
    THEN [ok |-> TRUE, err |-> NoError, deleted |-> 0, names |-> <<>>,
          rec |-> <<[type |-> c.kind, target |-> c.target,
                     killed_pods |-> <<>>]>>]
    ELSE [ok |-> FALSE, err |-> ErrNotImplemented, deleted |-> 0,
          names |-> <<>>, rec |-> <<>>]

\* -------------------------------------------------------------- recovery
\* _recover_from_failure (lines 293-305): the record returned at once for a
\* failure kind that needs no wait.
RecoveryRecordMutNoop(type) ==
    [type |-> "no_recovery_needed", recovered_pods |-> 0]
RecoveryRecord(type) ==
    IF type \in {"network_delay", "network_partition"}
    THEN [type |-> "network_recovery", recovered_pods |-> 0]
    ELSE IF type \in {"cpu_stress", "memory_stress"}
    THEN [type |-> "resource_recovery", recovered_pods |-> 0]
    ELSE [type |-> "no_recovery_needed", recovered_pods |-> 0]

\* result.injected_failures[-1]
LastFailure(e) == res[e].injected[Len(res[e].injected)]

\* ----------------------------------------------------------------- init
\* The outcome field before _inject_pod_kill has run.
NoOutcome == [ok |-> FALSE, err |-> NoError, deleted |-> 0, names |-> <<>>,
              rec |-> <<>>]

PkIdle == [n |-> 0, p |-> 1, failAt |-> 0, done |-> FALSE, out |-> NoOutcome]

\* No steady-state validation is under way.
NoVerdict == [raised |-> FALSE, valid |-> FALSE, checks |-> <<>>]
NoCheckConfig == [shape |-> "absent", selector_ok |-> TRUE, min_replicas |-> 0,
                  expected_status |-> 200]
SsIdle ==
    [hyp |-> [pod_health |-> NoCheckConfig,
              service_availability |-> NoCheckConfig,
              metrics |-> NoCheckConfig],
     world |-> [pods_raise |-> FALSE, pods |-> <<>>,
                response_raises |-> FALSE, status_code |-> 200],
     done |-> FALSE, out |-> NoVerdict]

\* --------------------------------------- AutoRecoverySystem: construction
\* auto_recovery.py, lines 12-19: a rule.  condition and action name what the
\* callables do: the three default conditions read the snapshot; a rule
\* added by a caller has a condition that returns true, returns false or
\* raises, and an action that returns or raises.  The default actions catch
\* their own exceptions (lines 110, 135) or make no call (lines 138-145).
Rule(name, condition, action, priority) ==
    [name |-> name, condition |-> condition, action |-> action,
     priority |-> priority]

\* Line 63: list.sort(key=priority) is stable; InsertStable puts r behind
\* the rules of a sorted list whose priority is not above r's.
RECURSIVE InsertStable(_, _)
InsertStable(rules, r) ==
    IF rules = <<>> THEN <<r>>
    ELSE IF rules[Len(rules)].priority <= r.priority
         THEN Append(rules, r)
         ELSE Append(InsertStable(SubSeq(rules, 1, Len(rules) - 1), r),
                     rules[Len(rules)])

RECURSIVE SortByPriority(_)
SortByPriority(rules) ==
    IF rules = <<>> THEN <<>>
    ELSE InsertStable(SortByPriority(SubSeq(rules, 1, Len(rules) - 1)),
                      rules[Len(rules)])

\* Lines 60-63: append, then sort.
AddedRule(rules, r) == SortByPriority(Append(rules, r))

\* Lines 33-58.
DefaultRules ==
    AddedRule(
        AddedRule(
            AddedRule(<<>>,
                Rule("pod_crash_recovery", "pod_crash", "returns", 1)),
            Rule("service_unavailable_recovery", "service_unavailable",
                 "returns", 2)),
        Rule("high_error_rate_recovery", "high_error_rate", "returns", 3))

\* Lines 168-175: the snapshot; the error rate 1.2 percent is kept in tenths.
CollectSystemMetrics ==
    [pod_health |-> [running_pods |-> 3, min_required |-> 2],
     service_availability |-> [valid |-> TRUE],
     error_rate |-> [error_rate_tenths |-> 12]]

\* No snapshot has been collected.
NoMetrics ==
    [pod_health |-> [running_pods |-> 0, min_required |-> 0],
     service_availability |-> [valid |-> TRUE],
     error_rate |-> [error_rate_tenths |-> 0]]

\* Lines 24-31: the system after __init__; monitor_and_recover has not been
\* called.  metrics is the snapshot of the last tick, log the sequence of
\* condition and action calls of that tick, raised tells whether that tick
\* ended in the except clause, errors counts the errors logged at line 165.
ArIdle ==
    [rules |-> DefaultRules, running |-> FALSE, pc |-> "idle", ticks |-> 0,
     added |-> 0, metrics |-> NoMetrics, log |-> <<>>, raised |-> FALSE,
     errors |-> 0]

\* No lookup has been made: get_experiment_status and list_experiments
\* return references to Result objects, written as ids (0: None).
LkIdle == [op |-> "none", id |-> 0, filter |-> "none", found |-> 0,
           list |-> <<>>]

\* agent.py has not run.
NoOutput == [exit |-> 0, printed |-> "nothing", status |-> "none",
             has_metrics |-> FALSE, inference_time_ms |-> 0,
             accuracy_percent |-> 0]
AgIdle == [argv |-> <<>>, done |-> FALSE, out |-> NoOutput]

InitEngine ==
    /\ pc = [e \in Ids |-> "idle"]
    /\ cfg = [e \in Ids |-> NoConfig]
    /\ res = [e \in Ids |-> NewResult]
    /\ running = {}
    /\ history = <<>>
    /\ active = 0
    /\ exc = [e \in Ids |-> NoError]
    /\ polls = [e \in Ids |-> 0]
    /\ calls = [e \in Ids |-> [inject |-> 0, deleted |-> 0, recover |-> 0,
                             polled |-> NoTarget, raised |-> 0]]
    /\ abortRets = [i \in Ids \cup {Ghost} |-> <<>>]

Init ==
    /\ InitEngine
    /\ pk = PkIdle
    /\ ss = SsIdle
    /\ ar = ArIdle
    /\ lk = LkIdle
    /\ ag = AgIdle

\* A step of run_experiment for e: e holds the event loop, or nobody does
\* and e resumes from a suspension.
Holds(e) == active = e

\* ------------------------------------------------------- run_experiment
\* Lines 113-122: allocate the id, create the Result as PENDING and register
\* it in running_experiments.  Ids are allocated in order.
Run(e, c) ==
    /\ active = 0
    /\ pc[e] = "idle"
    /\ \A d \in Ids : d < e => pc[d] # "idle"
    /\ cfg' = [cfg EXCEPT ![e] = c]
    /\ res' = [res EXCEPT ![e] = NewResult]
    /\ running' = running \cup {e}
    /\ pc' = [pc EXCEPT ![e] = "validate"]
    /\ active' = e
    /\ UNCHANGED <<history, exc, polls, calls, abortRets, aux>>

\* Line 133: not result.steady_state_before.get("valid", False).
BeforeInvalidMutNever(valid) == FALSE
BeforeInvalid(valid) == ~valid

\* Lines 127-136: validate the steady state when a hypothesis is given (the
\* verdict `valid` is the environment's), raise when it is invalid, else
\* become RUNNING.  A hypothesis whose check configuration is not a mapping
\* makes _validate_steady_state itself raise (lines 382-386, 420-422).
ValidateBefore(e) ==
    /\ Holds(e)
    /\ pc[e] = "validate"
    /\ \/ /\ ~cfg[e].hyp
          /\ res' = [res EXCEPT ![e].status = "running"]
          /\ pc' = [pc EXCEPT ![e] = "inject"]
          /\ exc' = exc
       \/ /\ cfg[e].hyp
          /\ \E valid \in BOOLEAN :
                IF BeforeInvalid(valid)
                THEN /\ res' = [res EXCEPT ![e].before = Verdict(valid)]
                     /\ exc' = [exc EXCEPT ![e] = ErrSteadyState]
                     /\ pc' = [pc EXCEPT ![e] = "except"]
                ELSE /\ res' = [res EXCEPT ![e].before = Verdict(valid),
                                           ![e].status = "running"]
                     /\ pc' = [pc EXCEPT ![e] = "inject"]
                     /\ exc' = exc
       \/ /\ cfg[e].hyp
          /\ exc' = [exc EXCEPT ![e] = ErrHypothesis]
          /\ pc' = [pc EXCEPT ![e] = "except"]
          /\ res' = res
    /\ UNCHANGED <<cfg, running, history, active, polls, calls,
                   abortRets, aux>>

\* Lines 139-143: inject the failure and append its record, then suspend in
\* asyncio.sleep(duration); an exception of the injection goes to the
\* except clause.  n pods match, failAt says which API call raises.
Inject(e) ==
    /\ Holds(e)
    /\ pc[e] = "inject"
    /\ \E n \in 0 .. MaxPods, failAt \in 0 .. MaxPods + 1 :
          /\ failAt <= n + 1
          /\ cfg[e].kind # "pod_kill" => (n = 0 /\ failAt = 0)
          /\ LET out == InjectFailure(cfg[e], n, failAt)
             IN  /\ IF out.ok
                    THEN /\ res' = [res EXCEPT
                               ![e].injected = res[e].injected \o out.rec]
                         /\ pc' = [pc EXCEPT ![e] = "sleep"]
                         /\ active' = 0
                         /\ exc' = exc
                    ELSE /\ exc' = [exc EXCEPT ![e] = out.err]
                         /\ pc' = [pc EXCEPT ![e] = "except"]
                         /\ UNCHANGED <<res, active>>
                 /\ calls' = [calls EXCEPT ![e].inject = @ + 1,
                                           ![e].deleted = @ + out.deleted]
    /\ UNCHANGED <<cfg, running, history, polls, abortRets, aux>>

\* The step that follows the dwell: line 146, _collect_metrics.
AfterSleepMutRecover == "recover"
AfterSleep == "metrics"

\* Line 143 returns: asyncio.sleep(duration) is over and run resumes.
Wake(e) ==
    /\ active = 0
    /\ pc[e] = "sleep"
    /\ pc' = [pc EXCEPT ![e] = AfterSleep]
    /\ active' = e
    /\ UNCHANGED <<cfg, res, running, history, exc, polls, calls,
                   abortRets, aux>>

\* Line 146: result.metrics = await self._collect_metrics(config); the four
\* sources are placeholders that never raise (lines 451-474).
CollectMetrics(e) ==
    /\ Holds(e)
    /\ pc[e] = "metrics"
    /\ res' = [res EXCEPT ![e].metrics = TRUE]
    /\ pc' = [pc EXCEPT ![e] = "recover"]
    /\ UNCHANGED <<cfg, running, history, active, exc, polls, calls,
                   abortRets, aux>>

\* Where run_experiment continues when _recover_from_failure returns: after
\* line 150 on the main path, at the finally clause after line 177.
AfterRecovery(path) == IF path = "m" THEN "validate_after" ELSE "finally"

\* _recover_from_failure returned `rec` to run_experiment, which appends it
\* to result.recovery_actions (line 150, line 177).
RecoveryReturns(e, path, rec) ==
    /\ res' = [res EXCEPT ![e].recovery = Append(res[e].recovery, rec)]
    /\ pc' = [pc EXCEPT ![e] = AfterRecovery(path)]
    /\ exc' = exc

\* _recover_from_failure raised `msg`: on the main path the exception goes to
\* the except clause of line 164; in the except clause it is logged and
\* dropped (lines 178-179).
RecoveryRaises(e, path, msg) ==
    /\ res' = res
    /\ IF path = "m"
       THEN /\ exc' = [exc EXCEPT ![e] = msg]
            /\ pc' = [pc EXCEPT ![e] = "except"]
       ELSE /\ exc' = exc
            /\ pc' = [pc EXCEPT ![e] = "finally"]

\* Lines 293-305 called from line 149 (path "m", with the local failure_info,
\* which is result.injected_failures[-1]) or from line 173 (path "f"): a
\* pod_kill record starts the wait of _wait_for_pod_recovery, every other
\* record is answered at once.
CallRecover(e, path) ==
    /\ calls' = [calls EXCEPT ![e].recover = @ + 1]
    /\ IF LastFailure(e).type = "pod_kill"
       THEN /\ pc' = [pc EXCEPT ![e] = path \o "_poll"]
            /\ UNCHANGED <<res, exc>>
       ELSE RecoveryReturns(e, path, RecoveryRecord(LastFailure(e).type))
    /\ polls' = [polls EXCEPT ![e] = 0]
    /\ UNCHANGED <<cfg, running, history, active, abortRets, aux>>

\* Line 149: recovery on the main path.
Recover(e) ==
    /\ Holds(e)
    /\ pc[e] = "recover"
    /\ CallRecover(e, "m")

\* Line 323: enough pods are Running again.
EnoughRunningMutAny(r, killed) == TRUE
EnoughRunning(r, killed) == r >= Len(killed)

\* Lines 309-310: the namespace and selector _wait_for_pod_recovery lists,
\* those of the config it was passed (run_experiment passes its own).
RecoveryTargetMutTemp(e) == AbortTarget
RecoveryTarget(e) == cfg[e].target

\* Lines 315-332, one turn of the loop of _wait_for_pod_recovery: list the
\* pods (the call may raise; r of them are Running), return the record when
\* enough are Running, else suspend in asyncio.sleep(5).
Poll(e, path) ==
    /\ Holds(e)
    /\ pc[e] = path \o "_poll"
    /\ calls' = [calls EXCEPT ![e].polled = RecoveryTarget(e)]
    /\ \/ /\ RecoveryRaises(e, path, ErrApi)
          /\ active' = active
       \/ \E r \in 0 .. MaxPods :
             IF EnoughRunning(r, LastFailure(e).killed_pods)
             THEN /\ RecoveryReturns(e, path,
                        [type |-> "pod_recovery", recovered_pods |-> r])
                  /\ active' = active
             ELSE /\ pc' = [pc EXCEPT ![e] = path \o "_poll_sleep"]
                  /\ active' = 0
                  /\ UNCHANGED <<res, exc>>
    /\ UNCHANGED <<cfg, running, history, polls, abortRets, aux>>

\* Line 332 returns and line 315 tests the clock: the wait goes on, or the
\* 300 s are over and line 334 raises.  The sleeps take at least 5 s each,
\* so the timeout is certain after MaxPolls of them; it may come earlier
\* when the event loop was busy.
PollWake(e, path) ==
    /\ active = 0
    /\ pc[e] = path \o "_poll_sleep"
    /\ polls' = [polls EXCEPT ![e] = polls[e] + 1]
    /\ active' = e
    /\ \E timedOut \in BOOLEAN :
          /\ polls[e] + 1 >= MaxPolls => timedOut
          /\ IF timedOut
             THEN RecoveryRaises(e, path, ErrTimeout)
             ELSE /\ pc' = [pc EXCEPT ![e] = path \o "_poll"]
                  /\ UNCHANGED <<res, exc>>
    /\ UNCHANGED <<cfg, running, history, calls, abortRets, aux>>

\* Line 158.
CompletedStatusMutFailed == "failed"
CompletedStatus == "completed"

\* Lines 153-160: store the steady state after the experiment when a
\* hypothesis is given (the same hypothesis validated at line 129 without
\* raising), then mark COMPLETED and stamp the end time.
ValidateAfter(e) ==
    /\ Holds(e)
    /\ pc[e] = "validate_after"
    /\ \E valid \in BOOLEAN :
          /\ ~cfg[e].hyp => valid
          /\ res' = [res EXCEPT
                ![e].after = IF cfg[e].hyp THEN Verdict(valid) ELSE @,
                ![e].status = CompletedStatus,
                ![e].end_time = @ + 1]
    /\ pc' = [pc EXCEPT ![e] = "finally"]
    /\ UNCHANGED <<cfg, running, history, active, exc, polls, calls,
                   abortRets, aux>>

\* Line 166.
ExceptStatusMutKeep(e) == res[e].status
ExceptStatus(e) == "failed"

\* Lines 164-172: the except clause marks FAILED, stores the message, stamps
\* the end time and goes on to the recovery attempt when a failure was
\* injected.  The exception stays bound until the clause ends (line 179).
Except(e) ==
    /\ Holds(e)
    /\ pc[e] = "except"
    /\ res' = [res EXCEPT ![e].status = ExceptStatus(e),
                          ![e].error = exc[e],
                          ![e].end_time = @ + 1]
    /\ pc' = [pc EXCEPT ![e] =
                IF res[e].injected # <<>> THEN "f_recover" ELSE "finally"]
    /\ UNCHANGED <<cfg, running, history, active, exc, polls, calls,
                   abortRets, aux>>

\* Lines 173-176: recovery in the except clause, from the last record.
FRecover(e) ==
    /\ Holds(e)
    /\ pc[e] = "f_recover"
    /\ CallRecover(e, "f")

\* Lines 184-185: if experiment_id in self.running_experiments: del ...
FinallyRunningMutClear(e) == {}
FinallyRunningMutKeep(e) == running
FinallyRunning(e) == running \ {e}

\* Lines 181-187: the finally clause appends the Result to the history,
\* removes the id from running_experiments, and run_experiment returns (its
\* locals end with it).
Finally(e) ==
    /\ Holds(e)
    /\ pc[e] = "finally"
    /\ history' = Append(history, e)
    /\ running' = FinallyRunning(e)
    /\ pc' = [pc EXCEPT ![e] = "done"]
    /\ active' = 0
    /\ cfg' = [cfg EXCEPT ![e] = NoConfig]
    /\ polls' = [polls EXCEPT ![e] = 0]
    /\ exc' = [exc EXCEPT ![e] = NoError]
    /\ UNCHANGED <<res, calls, abortRets, aux>>

\* ----------------------------------------------------- abort_experiment
\* Ids abort_experiment is called with: those run_experiment has handed out,
\* and an unknown one.
Known == {e \in Ids : pc[e] # "idle"} \cup {Ghost}

NumAborts == Len(abortRets[Ghost])
             + (LET S[k \in 0 .. MaxExp] ==
                      IF k = 0 THEN 0
                      ELSE S[k - 1] + Len(abortRets[k]) + calls[k].raised
                IN  S[MaxExp])

\* Line 499: return False.
AbortMissMutTrue == TRUE
AbortMiss == FALSE

\* Line 498: experiment_id in self.running_experiments.
IsRunningMutHistory(i) == i \in running \/ \E k \in DOMAIN history : history[k] = i
IsRunning(i) == i \in running

\* Line 524: del self.running_experiments[experiment_id].
AbortRunningMutKeep(i) == running
AbortRunning(i) == running \ {i}

\* Lines 496-526.  abort_experiment never suspends: the ExperimentConfig(...)
\* call of lines 511-516 omits the required field `duration` (line 58), so
\* it raises TypeError whenever a failure was injected, before
\* _recover_from_failure is called; the except clause of line 519 logs the
\* error, and no recovery record is appended.  The subscription of line 501
\* and the del of line 524 raise KeyError for an id that is not a key of
\* running_experiments.
Abort(i) ==
    /\ active = 0
    /\ i \in Known
    /\ NumAborts < MaxAborts
    /\ IF ~IsRunning(i)
       THEN /\ abortRets' = [abortRets EXCEPT ![i] = Append(@, AbortMiss)]
            /\ UNCHANGED <<res, history, running, calls>>
       ELSE IF i \notin running
       THEN /\ calls' = [calls EXCEPT ![i].raised = @ + 1]
            /\ UNCHANGED <<res, history, running, abortRets>>
       ELSE /\ res' = [res EXCEPT ![i].status = "aborted",
                                  ![i].end_time = @ + 1]
            /\ history' = Append(history, i)
            /\ running' = AbortRunning(i)
            /\ abortRets' = [abortRets EXCEPT ![i] = Append(@, TRUE)]
            /\ calls' = calls
    /\ UNCHANGED <<pc, cfg, active, exc, polls, aux>>

\* ------------------------------------------------------- specification
Next ==
    \/ \E e \in Ids, c \in Configs : Run(e, c)
    \/ \E e \in Ids : ValidateBefore(e)
    \/ \E e \in Ids : Inject(e)
    \/ \E e \in Ids : Wake(e)
    \/ \E e \in Ids : CollectMetrics(e)
    \/ \E e \in Ids : Recover(e)
    \/ \E e \in Ids, path \in {"m", "f"} : Poll(e, path)
    \/ \E e \in Ids, path \in {"m", "f"} : PollWake(e, path)
    \/ \E e \in Ids : ValidateAfter(e)
    \/ \E e \in Ids : Except(e)
    \/ \E e \in Ids : FRecover(e)
    \/ \E e \in Ids : Finally(e)
    \/ \E i \in Ids \cup {Ghost} : Abort(i)

Spec == Init /\ [][Next]_vars

\* ------------------------------------------- _inject_pod_kill alone
\* _inject_pod_kill alone, on every listing size up to MaxMatch, every
\* percentage 1..100 and every place an API call can raise.
InitPodKill ==
    /\ InitEngine
    /\ pk \in {x \in [n : 0 .. MaxMatch, p : 1 .. 100,
                      failAt : 0 .. MaxMatch + 1, done : {FALSE},
                      out : {NoOutcome}] : x.failAt <= x.n + 1}
    /\ ss = SsIdle
    /\ ar = ArIdle
    /\ lk = LkIdle
    /\ ag = AgIdle

PodKill ==
    /\ ~pk.done
    /\ pk' = [pk EXCEPT !.done = TRUE,
                        !.out = InjectPodKill(DefaultTarget, pk.n, pk.p, pk.failAt)]
    /\ UNCHANGED <<engineVars, ss, ar, lk, ag>>

SpecPodKill == InitPodKill /\ [][PodKill]_vars

\* ================================================================ claims
Terminal == {"completed", "failed", "aborted"}

Started(e) == pc[e] # "idle"

\* run_experiment for e has returned.
Returned(e) == pc[e] = "done"

InHistory(e) == \E k \in DOMAIN history : history[k] = e

HistoryEntries(e) == Cardinality({k \in DOMAIN history : history[k] = e})

AbortedTrue(i) == \E k \in DOMAIN abortRets[i] : abortRets[i][k]

\* C1: a run whose steady-state hypothesis validates as invalid before the
\* experiment never dispatches an injection, keeps its injected-failure list
\* empty and, once the except clause has run, is FAILED with the
\* pre-validation error message.
C1_FailFast ==
    \A e \in Ids :
        res[e].before = "invalid" =>
            /\ calls[e].inject = 0
            /\ res[e].injected = <<>>
            /\ pc[e] \in {"except", "finally", "done"}
            /\ pc[e] \in {"finally", "done"} =>
                  /\ res[e].status = "failed"
                  /\ res[e].error = ErrSteadyState

C1_Witness ==
    \E e \in Ids : Returned(e) /\ res[e].before = "invalid"

\* C2: every experiment id for which run has been invoked is in running or
\* in history, never in both and never in neither.
C2_Partition ==
    \A e \in Ids : Started(e) => ((e \in running) # InHistory(e))

\* Both sides of the partition occur, with an id moved by abort while its
\* run is in flight and an id moved by its run's finally clause.
C2_Witness ==
    \E e, d \in Ids :
        /\ ~Returned(e) /\ InHistory(e) /\ e \notin running
        /\ Returned(d) /\ ~AbortedTrue(d) /\ InHistory(d)

\* C3: after abort(id) during the in-flight run of the same id and the
\* return of that run, history holds exactly one entry for the id.
C3_SingleMove ==
    \A e \in Ids : (Returned(e) /\ AbortedTrue(e)) => HistoryEntries(e) = 1

\* C4: every terminal experiment whose run and abort calls have returned
\* holds exactly one recovery-action record per injected-failure record.
C4_OneRecoveryPerFailure ==
    \A e \in Ids :
        (Returned(e) /\ res[e].status \in Terminal) =>
            Len(res[e].recovery) = Len(res[e].injected)

\* C5: once a Result's status is COMPLETED, FAILED or ABORTED, no step of
\* run or abort changes it.
C5_TerminalIsFinal ==
    [][\A e \in Ids :
          res[e].status \in Terminal => res'[e].status = res[e].status]_vars

\* C6: whenever run returns, the Result has a terminal status, never PENDING
\* or RUNNING.
C6_ReturnsTerminal ==
    \A e \in Ids : Returned(e) => res[e].status \in Terminal

\* A run that returned after an abort of its id, and another that returned
\* FAILED.
C6_Witness ==
    \E e \in Ids :
        /\ Returned(e) /\ AbortedTrue(e)
        /\ \E d \in Ids \ {e} : Returned(d) /\ res[d].status = "failed"

\* C7: after a first abort(id) call has returned, every later abort(id) call
\* returns false.
C7_SecondAbortFalse ==
    \A i \in Ids \cup {Ghost} :
        \A k \in DOMAIN abortRets[i] : k >= 2 => ~abortRets[i][k]

C7_Witness ==
    \E i \in Ids : abortRets[i] = <<TRUE, FALSE>>

\* C8: abort(id) for an id that is not in running returns false and leaves
\* running, history and every Result unchanged.
C8_AbortMissFrame ==
    [][\A i \in Ids \cup {Ghost} :
          (~(i \in running) /\ Len(abortRets'[i]) = Len(abortRets[i]) + 1) =>
              /\ abortRets'[i] = Append(abortRets[i], FALSE)
              /\ UNCHANGED <<running, history, res>>]_vars

\* abort has returned false for an unknown id and for an id already moved to
\* history.
C8_Witness ==
    /\ abortRets[Ghost] # <<>>
    /\ \E e \in Ids : Returned(e) /\ abortRets[e] = <<FALSE>>

\* floor(n * p / 100), stated by its defining inequalities.
FloorPct(n, p) == CHOOSE q \in 0 .. n : 100 * q <= n * p /\ n * p < 100 * (q + 1)

\* C9: a pod-kill injection on n >= 1 matching pods with percentage p in
\* 1..100 that completes deletes exactly max(1, floor(n*p/100)) pods and
\* records them; the number deleted is never zero and never exceeds n (an
\* injection cut short by a failing API call deletes fewer, never more).
C9_PodKillCount ==
    (pk.done /\ pk.n >= 1) =>
        /\ pk.out.deleted <= pk.n
        /\ pk.out.deleted <= Max(1, FloorPct(pk.n, pk.p))
        /\ pk.out.ok =>
              /\ pk.out.deleted = Max(1, FloorPct(pk.n, pk.p))
              /\ Len(pk.out.rec[1].killed_pods) = pk.out.deleted
              /\ pk.out.deleted >= 1

\* The floor is zero and one pod is killed all the same.
C9_Witness ==
    /\ pk.done /\ pk.out.ok
    /\ FloorPct(pk.n, pk.p) = 0
    /\ pk.out.deleted = 1

\* C10: no recovery is invoked for an experiment before its metrics snapshot
\* has been collected.
C10_MetricsBeforeRecovery ==
    \A e \in Ids : calls[e].recover > 0 => res[e].metrics

\* Recovery ran on the failure path of a run whose id was aborted.
C10_Witness ==
    \E e \in Ids : calls[e].recover = 2 /\ AbortedTrue(e)

\* abort_experiment(i) returns true in this step.
AbortTrueStep(i) == abortRets'[i] = Append(abortRets[i], TRUE)

\* C11: once its id has left running, no field of a Result is changed by
\* any later step of run or abort.
C11_HistoryImmutable ==
    [][\A e \in Ids :
          (Started(e) /\ e \notin running /\ InHistory(e)) =>
              res'[e] = res[e]]_vars

\* C12: the status of a Result immediately before abort sets it to ABORTED
\* is RUNNING.
C12_AbortedFromRunning ==
    [][\A e \in Ids :
          (res'[e].status = "aborted" /\ res[e].status # "aborted") =>
              res[e].status = "running"]_vars

\* C13: when the main sequence fails after a failure was injected, recovery
\* is attempted once more from the last record; when that attempt has been
\* made the run still reaches its return, the error message is the primary
\* failure's, and the Result is FAILED.
C13_SecondaryFailureKeepsFailed ==
    \A e \in Ids :
        /\ (pc[e] \in {"f_recover", "f_poll", "f_poll_sleep"}) =>
              /\ res[e].injected # <<>>
              /\ res[e].error = exc[e]
        /\ (calls[e].recover = 2 /\ pc[e] = "finally") =>
              res[e].error = exc[e]
        /\ (calls[e].recover = 2 /\ res[e].recovery = <<>>
              /\ pc[e] \in {"finally", "done"}) =>
              res[e].status = "failed"

\* C14: abort of a running experiment that has an injected-failure record
\* invokes recovery on it before it moves the Result to history, marks
\* ABORTED, stamps the end time and returns true.
C14_AbortRecovers ==
    [][\A i \in Ids :
          (i \in running /\ res[i].injected # <<>>
             /\ Len(abortRets'[i]) = Len(abortRets[i]) + 1) =>
              /\ calls'[i].recover = calls[i].recover + 1
              /\ AbortTrueStep(i)
              /\ res'[i].status = "aborted"
              /\ res'[i].end_time # res[i].end_time
              /\ InHistory(i)' /\ i \notin running']_vars

\* C15: the recovery abort performs is the one of the kind of the last
\* injected-failure record: for a kind that needs no wait, abort appends the
\* recovery record of that kind.
C15_AbortRecoversByKind ==
    [][\A i \in Ids :
          (AbortTrueStep(i) /\ res[i].injected # <<>>
             /\ LastFailure(i).type # "pod_kill") =>
              res'[i].recovery =
                  Append(res[i].recovery, RecoveryRecord(LastFailure(i).type))]_vars

\* C16: every poll of pod-kill recovery lists the pods of the namespace and
\* selector of the experiment's pod-kill record.
C16_PollsOwnTarget ==
    \A e \in Ids :
        calls[e].polled # NoTarget =>
            /\ res[e].injected # <<>>
            /\ LastFailure(e).type = "pod_kill"
            /\ calls[e].polled = LastFailure(e).target

\* Recovery has polled on the main path and on the failure path of a run
\* whose id was aborted meanwhile.
C16_Witness ==
    \E e \in Ids :
        /\ calls[e].recover = 2
        /\ pc[e] = "f_poll_sleep"
        /\ calls[e].polled # NoTarget
        /\ AbortedTrue(e)

\* The steps of run_experiment(e) after its start: each is a return of an
\* external call, the end of a sleep, or code that runs to the next
\* suspension point.
RunStep(e) ==
    \/ ValidateBefore(e)
    \/ Inject(e)
    \/ Wake(e)
    \/ CollectMetrics(e)
    \/ Recover(e)
    \/ \E path \in {"m", "f"} : Poll(e, path) \/ PollWake(e, path)
    \/ ValidateAfter(e)
    \/ Except(e)
    \/ FRecover(e)
    \/ Finally(e)

\* External calls return, sleeps of finite duration end, and the event loop
\* resumes a coroutine that is ready.
SpecLive == Init /\ [][Next]_vars /\ \A e \in Ids : WF_vars(RunStep(e))

\* C17: every started run eventually finishes with its id removed from
\* running and present in history, on success and on every failure path.
C17_RunFinishes ==
    \A e \in Ids :
        Started(e) ~> (Returned(e) /\ e \notin running /\ InHistory(e))

\* A run has finished on the failure path after its recovery poll timed out.
C17_Witness ==
    \E e \in Ids :
        /\ Returned(e) /\ e \notin running /\ InHistory(e)
        /\ res[e].error = ErrTimeout
        /\ \E d \in Ids : Returned(d) /\ res[d].status = "completed"

\* ------------------------------------------------ _validate_steady_state
\* Largest min_replicas of a pod_health configuration.
MaxReplicas == 2

\* What a key of the hypothesis holds: nothing (the key is absent), a value
\* that is not a mapping (None, a string), or a mapping.
Shapes == {"absent", "bad", "mapping"}

ExpectedStatuses == {200, 204}
StatusCodes == {200, 204, 503}

\* A check configuration; the fields a shape or a check does not use keep
\* the values of NoCheckConfig.  selector_ok is false for a pod_health
\* selector that is not a mapping.
CheckConfigs ==
    [shape : Shapes, selector_ok : BOOLEAN, min_replicas : 0 .. MaxReplicas,
     expected_status : ExpectedStatuses]

Unused(c, fields) == \A f \in fields : c[f] = NoCheckConfig[f]

PodHealthConfigs ==
    {c \in CheckConfigs :
        /\ Unused(c, {"expected_status"})
        /\ c.shape # "mapping" => Unused(c, {"selector_ok", "min_replicas"})}
ServiceConfigs ==
    {c \in CheckConfigs :
        /\ Unused(c, {"selector_ok", "min_replicas"})
        /\ c.shape # "mapping" => Unused(c, {"expected_status"})}
MetricsConfigs ==
    {c \in CheckConfigs :
        Unused(c, {"selector_ok", "min_replicas", "expected_status"})}

Hypotheses ==
    [pod_health : PodHealthConfigs,
     service_availability : ServiceConfigs,
     metrics : MetricsConfigs]

\* Line 358, 363, 368: "key" in hypothesis.
Present(hypothesis, key) == hypothesis[key].shape # "absent"

\* A listed pod: its phase, and the status of its Ready condition ("none"
\* when it has no condition of type Ready).
ListedPods ==
    [phase : {"Running", "Pending"},
     ready : {"True", "False", "Unknown", "none"}]

\* Lines 395-399: all(condition.status == "True" for the conditions of type
\* Ready), which is true of a pod without such a condition.
ReadyConditionsTrueMutAny(q) == TRUE
ReadyConditionsTrue(q) == q.ready = "none" \/ q.ready = "True"

\* What the cluster and the service answer during one validation: the list
\* call raises or returns pods, the request raises or returns a status code.
Worlds ==
    {w \in [pods_raise : BOOLEAN,
            pods : UNION {[1 .. n -> ListedPods] : n \in 0 .. MaxPods},
            response_raises : BOOLEAN,
            status_code : StatusCodes] :
        /\ w.pods_raise => w.pods = <<>>
        /\ w.response_raises => w.status_code = 200}

\* A check as returned: error is NoError for a check without an error
\* field; observed is the ready-pod count or the status code.
Check(type, valid, error, observed) ==
    [type |-> type, valid |-> valid, error |-> error, observed |-> observed]

\* Lines 382-386 are outside the try statement: .get on a configuration that
\* is not a mapping, or .items() on such a selector, raises out of the
\* function.
PodHealthPropagates(config) == config.shape = "bad" \/ ~config.selector_ok

\* Lines 388-416.
CheckPodHealth(config, world) ==
    IF world.pods_raise
    THEN Check("pod_health", FALSE, ErrApi, 0)
    ELSE LET running_pods ==
                 SelectSeq(world.pods, LAMBDA q : q.phase = "Running")
             ready_pods ==
                 SelectSeq(running_pods, ReadyConditionsTrue)
         IN  Check("pod_health", Len(ready_pods) >= config.min_replicas,
                   NoError, Len(ready_pods))

\* Lines 420-422 are outside the try statement.
ServicePropagates(config) == config.shape = "bad"

\* Lines 424-440.
CheckServiceAvailabilityMutAny(config, world) ==
    IF world.response_raises
    THEN Check("service_availability", FALSE, ErrApi, 0)
    ELSE Check("service_availability", TRUE, NoError, world.status_code)
CheckServiceAvailability(config, world) ==
    IF world.response_raises
    THEN Check("service_availability", FALSE, ErrApi, 0)
    ELSE Check("service_availability",
               world.status_code = config.expected_status, NoError,
               world.status_code)

\* Lines 442-449.
CheckMetrics(config) == Check("metrics", TRUE, NoError, 0)

\* Line 372: all(check["valid"] for check in checks).
AllValidMutAny(checks) == \E i \in DOMAIN checks : checks[i].valid
AllValid(checks) == \A i \in DOMAIN checks : checks[i].valid

\* The exception left _validate_steady_state.
Raised == [raised |-> TRUE, valid |-> FALSE, checks |-> <<>>]

\* Lines 352-378: the checks of the keys present, in this order, then the
\* aggregate.
ValidateSteadyState(hypothesis, world) ==
    LET pod ==
            IF Present(hypothesis, "pod_health")
            THEN <<CheckPodHealth(hypothesis.pod_health, world)>>
            ELSE <<>>
        service ==
            IF Present(hypothesis, "service_availability")
            THEN <<CheckServiceAvailability(hypothesis.service_availability,
                                            world)>>
            ELSE <<>>
        metrics ==
            IF Present(hypothesis, "metrics")
            THEN <<CheckMetrics(hypothesis.metrics)>>
            ELSE <<>>
        checks == pod \o service \o metrics
    IN  IF \/ Present(hypothesis, "pod_health")
              /\ PodHealthPropagates(hypothesis.pod_health)
           \/ Present(hypothesis, "service_availability")
              /\ ServicePropagates(hypothesis.service_availability)
        THEN Raised
        ELSE [raised |-> FALSE, valid |-> AllValid(checks), checks |-> checks]

InitValidate ==
    /\ InitEngine
    /\ pk = PkIdle
    /\ ar = ArIdle
    /\ lk = LkIdle
    /\ ag = AgIdle
    /\ ss \in [hyp : Hypotheses, world : Worlds, done : {FALSE},
               out : {NoVerdict}]

\* One call of _validate_steady_state.
Validate ==
    /\ ~ss.done
    /\ ss' = [ss EXCEPT !.done = TRUE,
                        !.out = ValidateSteadyState(ss.hyp, ss.world)]
    /\ UNCHANGED <<engineVars, pk, ar, lk, ag>>

SpecValidate == InitValidate /\ [][Validate]_vars

CheckKeys == {"pod_health", "service_availability", "metrics"}

\* C18: steady-state validation never throws and always returns a verdict;
\* a pod-health or service-availability check during which an exception is
\* raised is returned with valid false and an error field.
C18_ValidationNeverThrows ==
    ss.done =>
        /\ ~ss.out.raised
        /\ \A i \in DOMAIN ss.out.checks :
              LET c == ss.out.checks[i]
              IN  ((c.type = "pod_health" /\ ss.world.pods_raise)
                     \/ (c.type = "service_availability"
                           /\ ss.world.response_raises))
                  => (~c.valid /\ c.error # NoError)

\* C19: the aggregate verdict is the conjunction of the valid flags of
\* exactly the checks whose key is in the hypothesis: true when no key is
\* present, false as soon as one present check is invalid.
C19_AggregateIsAnd ==
    (ss.done /\ ~ss.out.raised) =>
        LET present == {k \in CheckKeys : Present(ss.hyp, k)}
            cs == ss.out.checks
        IN  /\ {cs[i].type : i \in DOMAIN cs} = present
            /\ Len(cs) = Cardinality(present)
            /\ ss.out.valid =
                  (\A k \in present :
                      \A i \in DOMAIN cs : cs[i].type = k => cs[i].valid)
            /\ present = {} => ss.out.valid
            /\ (\E i \in DOMAIN cs : ~cs[i].valid) => ~ss.out.valid

\* A validation with the three checks present returned invalid because the
\* pod-health check alone was invalid.
C19_Witness ==
    /\ ss.done /\ ~ss.out.raised
    /\ Len(ss.out.checks) = 3
    /\ ~ss.out.checks[1].valid
    /\ ss.out.checks[2].valid /\ ss.out.checks[3].valid
    /\ ~ss.out.valid

\* ------------------------------------------ AutoRecoverySystem: the loop
\* Ticks of one monitor_and_recover call, and rules added by callers.
MaxTicks == 2
MaxAdded == 2

\* Lines 65-70.
CheckPodCrash(metrics) ==
    metrics.pod_health.running_pods < metrics.pod_health.min_required

\* Lines 72-75.
CheckServiceUnavailable(metrics) == ~metrics.service_availability.valid

\* Lines 77-80: error_rate > 5.0.
CheckHighErrorRate(metrics) == metrics.error_rate.error_rate_tenths > 50

\* Line 158: rule.condition(metrics) returns true, returns false or raises.
Condition(rule, metrics) ==
    CASE rule.condition = "pod_crash" ->
             IF CheckPodCrash(metrics) THEN "true" ELSE "false"
      [] rule.condition = "service_unavailable" ->
             IF CheckServiceUnavailable(metrics) THEN "true" ELSE "false"
      [] rule.condition = "high_error_rate" ->
             IF CheckHighErrorRate(metrics) THEN "true" ELSE "false"
      [] OTHER -> rule.condition

\* The rules callers add: the k-th has the k-th name.
CustomNames == <<"custom_1", "custom_2", "custom_3", "custom_4">>
CustomPriorities == {0, 2, 4}
CustomRules(k) ==
    {Rule(CustomNames[k], c, a, p) :
        c \in {"true", "false", "raises"}, a \in {"returns", "raises"},
        p \in CustomPriorities}

Called(what, rule) == [call |-> what, name |-> rule.name]

\* Lines 157-160: the for loop from rule i on.  An exception of a condition
\* or an action ends the loop: the try statement encloses the whole tick.
RECURSIVE RunRules(_, _, _, _)
RunRules(rules, i, metrics, log) ==
    IF i > Len(rules) THEN [log |-> log, raised |-> FALSE]
    ELSE LET rule == rules[i]
             c == Condition(rule, metrics)
             evaluated == Append(log, Called("condition", rule))
             invoked == Append(evaluated, Called("action", rule))
         IN  IF c = "raises" THEN [log |-> evaluated, raised |-> TRUE]
             ELSE IF c = "false"
                  THEN RunRules(rules, i + 1, metrics, evaluated)
             ELSE IF rule.action = "raises"
                  THEN [log |-> invoked, raised |-> TRUE]
             ELSE RunRules(rules, i + 1, metrics, invoked)

\* Lines 147-149: monitor_and_recover starts and reaches the loop test.
Monitor ==
    /\ ar.pc = "idle"
    /\ ar' = [ar EXCEPT !.running = TRUE, !.pc = "loop"]
    /\ UNCHANGED <<engineVars, pk, ss, lk, ag>>

\* Line 151: while self.running.
LoopTestMutTrue == TRUE
LoopTest == ar.running

\* Lines 162, 166: after the rules, and after the except clause, the loop
\* sleeps for the interval.
AfterTickMutHalt(raised) == IF raised THEN "returned" ELSE "sleep"
AfterTick(raised) == "sleep"

\* Lines 151-166: one iteration on the snapshot `metrics`, up to the sleep
\* of line 162 or line 166.
TickOn(metrics) ==
    /\ ar.pc = "loop"
    /\ LoopTest
    /\ ar.ticks < MaxTicks
    /\ LET out == RunRules(ar.rules, 1, metrics, <<>>)
       IN  ar' = [ar EXCEPT !.ticks = @ + 1, !.metrics = metrics,
                            !.log = out.log, !.raised = out.raised,
                            !.errors = IF out.raised THEN @ + 1 ELSE @,
                            !.pc = AfterTick(out.raised)]
    /\ UNCHANGED <<engineVars, pk, ss, lk, ag>>

\* Line 154: the snapshot is the one of _collect_system_metrics.
Tick == TickOn(CollectSystemMetrics)

\* Lines 162, 166: the sleep ends, back to the loop test.
Sleep ==
    /\ ar.pc = "sleep"
    /\ ar' = [ar EXCEPT !.pc = "loop"]
    /\ UNCHANGED <<engineVars, pk, ss, lk, ag>>

\* Line 151: the loop test fails and monitor_and_recover returns.
MonitorReturns ==
    /\ ar.pc = "loop"
    /\ ~LoopTest
    /\ ar' = [ar EXCEPT !.pc = "returned"]
    /\ UNCHANGED <<engineVars, pk, ss, lk, ag>>

\* The loop is not executing: another caller can run.
Suspended == ar.pc \in {"idle", "sleep", "returned"}

\* Lines 177-179.
Stop ==
    /\ Suspended
    /\ ar' = [ar EXCEPT !.running = FALSE]
    /\ UNCHANGED <<engineVars, pk, ss, lk, ag>>

\* Lines 60-63.
AddRule(rule) ==
    /\ Suspended
    /\ ar.added < MaxAdded
    /\ ar' = [ar EXCEPT !.rules = AddedRule(ar.rules, rule),
                        !.added = @ + 1]
    /\ UNCHANGED <<engineVars, pk, ss, lk, ag>>

NextRecovery ==
    \/ Monitor
    \/ Tick
    \/ Sleep
    \/ MonitorReturns
    \/ Stop
    \/ \E rule \in CustomRules(ar.added + 1) : AddRule(rule)

InitRecovery ==
    /\ InitEngine
    /\ pk = PkIdle /\ ss = SsIdle /\ ar = ArIdle /\ lk = LkIdle /\ ag = AgIdle

SpecRecovery == InitRecovery /\ [][NextRecovery]_vars

\* The names of the rules called for `what` in a tick's log, in call order.
NamesCalled(log, what) ==
    LET calls_ == SelectSeq(log, LAMBDA c : c.call = what)
    IN  [i \in DOMAIN calls_ |-> calls_[i].name]

NamesOf(rules) == [i \in DOMAIN rules |-> rules[i].name]

\* C20: in every tick the conditions of all registered rules, those added
\* with add_rule included, are evaluated in ascending priority order, and the
\* action of every rule whose condition is true is invoked, in that order.
C20_EveryMatchingRuleFires ==
    [][ar'.ticks = ar.ticks + 1 =>
          /\ \A i, j \in DOMAIN ar.rules :
                i < j => ar.rules[i].priority <= ar.rules[j].priority
          /\ NamesCalled(ar'.log, "condition") = NamesOf(ar.rules)
          /\ NamesCalled(ar'.log, "action") =
                NamesOf(SelectSeq(ar.rules,
                    LAMBDA r : Condition(r, CollectSystemMetrics) = "true"))]_vars

\* The interval sleep ends, and the loop runs when it is resumed.
SpecRecoveryLive ==
    /\ InitRecovery
    /\ [][NextRecovery]_vars
    /\ WF_vars(Tick) /\ WF_vars(Sleep) /\ WF_vars(MonitorReturns)

\* C21: a tick in which a rule's condition or action raised does not halt
\* the loop: it sleeps for the interval with running unchanged, and the next
\* tick follows unless stop is called.
C21_ErrorNeverHalts ==
    /\ [][(ar'.ticks = ar.ticks + 1 /\ ar'.raised) =>
            (ar'.pc = "sleep" /\ ar'.running)]_vars
    /\ \A n \in 1 .. MaxTicks - 1 :
          (ar.raised /\ ar.ticks = n /\ ar.pc = "sleep")
              ~> (ar.ticks = n + 1 \/ ~ar.running)

\* The loop ticked again after a tick that logged an error and was not
\* stopped.
C21_Witness ==
    /\ ar.ticks = 2 /\ ar.errors = 2
    /\ ar.running /\ ar.pc = "sleep"

\* C23: after stop() during the loop's sleep the sleep is not interrupted,
\* no further tick is started (no new snapshot, no rule called), and
\* monitor_and_recover eventually returns.
C23_StopIsCooperative ==
    /\ [][(ar.pc \in {"sleep", "loop"} /\ ~ar.running) =>
            /\ ar'.ticks = ar.ticks
            /\ ar'.metrics = ar.metrics
            /\ ar'.log = ar.log
            /\ ar.pc = "sleep" => ar'.pc \in {"sleep", "loop"}]_vars
    /\ (ar.pc = "sleep" /\ ~ar.running) ~> (ar.pc = "returned")

\* monitor_and_recover has returned after at least one tick and a stop.
C23_Witness ==
    ar.pc = "returned" /\ ar.ticks >= 1 /\ ~ar.running

\* Snapshots for the loop to run on: _collect_system_metrics returns the
\* first of them (lines 171-175) until it is integrated with a monitoring
\* system; the conditions of lines 65-80 are written for any snapshot.
Snapshots ==
    [pod_health : [running_pods : 1 .. 3, min_required : {2}],
     service_availability : [valid : BOOLEAN],
     error_rate : [error_rate_tenths : {12, 60}]]

\* The loop of SpecRecovery with the snapshot of each tick taken from
\* Snapshots.
NextRecoveryOn ==
    \/ Monitor
    \/ \E metrics \in Snapshots : TickOn(metrics)
    \/ Sleep
    \/ MonitorReturns
    \/ Stop
    \/ \E rule \in CustomRules(ar.added + 1) : AddRule(rule)

SpecRecoveryOn == InitRecovery /\ [][NextRecoveryOn]_vars

\* How often a tick's log holds the call `what` of the rule `name`.
TimesCalled(log, what, name) ==
    Cardinality({i \in DOMAIN log : log[i] = [call |-> what, name |-> name]})

PodKillRun(e) == res[e].injected # <<>> /\ LastFailure(e).type = "pod_kill"

C25_TimeoutFails ==
    \A e \in Ids :
        /\ polls[e] <= MaxPolls
        /\ (res[e].error = ErrTimeout /\ pc[e] \in {"finally", "done"}) =>
              res[e].status = "failed"

\* Lines 189-202: the kinds _inject_failure dispatches.
SupportedKinds ==
    {"pod_kill", "network_delay", "network_partition", "cpu_stress",
     "memory_stress"}

\* C26: an injection that fails because no pod matches or because the kind
\* is not supported deletes no pod and yields no record, and the run ends
\* FAILED with that error message, without injected-failure or recovery
\* record.
C26_DispatchFailure ==
    /\ \A k \in FailureType \ SupportedKinds, h \in BOOLEAN :
          InjectFailure([kind |-> k, percentage |-> 100, hyp |-> h,
                         target |-> DefaultTarget], 0, 0)
              = [ok |-> FALSE, err |-> ErrNotImplemented, deleted |-> 0,
                 names |-> <<>>, rec |-> <<>>]
    /\ \A t \in RunTargets, p \in 1 .. 100 :
          InjectPodKill(t, 0, p, 0)
              = [ok |-> FALSE, err |-> ErrNoPods, deleted |-> 0,
                 names |-> <<>>, rec |-> <<>>]
    /\ \A e \in Ids :
          /\ (pc[e] \in {"except", "finally"} /\ calls[e].inject = 1
                /\ cfg[e].kind \notin SupportedKinds) =>
                (IF pc[e] = "except" THEN exc[e] ELSE res[e].error)
                    = ErrNotImplemented
          /\ ((pc[e] = "except" /\ exc[e] \in {ErrNoPods, ErrNotImplemented})
                \/ (pc[e] \in {"finally", "done"}
                      /\ res[e].error \in {ErrNoPods, ErrNotImplemented})) =>
                /\ calls[e].deleted = 0
                /\ calls[e].recover = 0
                /\ res[e].injected = <<>>
                /\ res[e].recovery = <<>>
                /\ pc[e] # "except" => res[e].status = "failed"

\* One run ended FAILED because no pod matched, another because its kind is
\* not supported.
C26_Witness ==
    \E e, d \in Ids :
        /\ Returned(e) /\ res[e].error = ErrNoPods
        /\ Returned(d) /\ res[d].error = ErrNotImplemented

\* ------------------------------ get_experiment_status, list_experiments
\* list(self.running_experiments.values()): the Results in insertion order,
\* which is the order of the ids.
RunningValues == SelectSeq([i \in 1 .. MaxExp |-> i], LAMBDA i : i \in running)

\* Lines 476-485: the Result of the id in running_experiments, else the first
\* Result of history with this id, else None.
GetExperimentStatusMutHistory(i) ==
    LET hits == {k \in DOMAIN history : history[k] = i}
    IN  IF hits = {} THEN 0
        ELSE history[CHOOSE k \in hits : \A h \in hits : k <= h]
GetExperimentStatus(i) ==
    IF i \in running THEN i
    ELSE LET hits == {k \in DOMAIN history : history[k] = i}
         IN  IF hits = {} THEN 0
             ELSE history[CHOOSE k \in hits : \A h \in hits : k <= h]

\* Lines 487-494; status "none" is a call without filter.
ListExperiments(status) ==
    LET all_experiments == RunningValues \o history
    IN  IF status # "none"
        THEN SelectSeq(all_experiments, LAMBDA x : res[x].status = status)
        ELSE all_experiments

\* A caller looks an id up while no coroutine of the engine is running.
Get(i) ==
    /\ active = 0
    /\ lk' = [op |-> "get", id |-> i, filter |-> "none",
              found |-> GetExperimentStatus(i), list |-> <<>>]
    /\ UNCHANGED <<engineVars, pk, ss, ar, ag>>

List(status) ==
    /\ active = 0
    /\ lk' = [op |-> "list", id |-> 0, filter |-> status, found |-> 0,
              list |-> ListExperiments(status)]
    /\ UNCHANGED <<engineVars, pk, ss, ar, ag>>

\* The experiments run while lookups are made: one kind whose injection
\* returns, one whose injection raises, no hypothesis.
LookupConfigs ==
    {c \in Configs : c.kind \in {"network_delay", "disk_fill"} /\ ~c.hyp}

NextLookup ==
    \/ \E e \in Ids, c \in LookupConfigs : Run(e, c)
    \/ \E e \in Ids : ValidateBefore(e)
    \/ \E e \in Ids : Inject(e)
    \/ \E e \in Ids : Wake(e)
    \/ \E e \in Ids : CollectMetrics(e)
    \/ \E e \in Ids : Recover(e)
    \/ \E e \in Ids : ValidateAfter(e)
    \/ \E e \in Ids : Except(e)
    \/ \E e \in Ids : Finally(e)
    \/ \E i \in Ids \cup {Ghost} : Abort(i)
    \/ \E i \in Ids \cup {Ghost} : Get(i)
    \/ \E status \in ExperimentStatus \cup {"none"} : List(status)

SpecLookup == Init /\ [][NextLookup]_vars

\* C27: get and list change neither running nor history nor any Result; get
\* returns the Result of the id when the id is in running or in history and
\* None otherwise; list returns the running Results followed by the history,
\* only those of the given status when a filter is supplied.
C27_LookupsReadOnly ==
    [][lk' # lk =>
          /\ UNCHANGED engineVars
          /\ lk'.op = "get" =>
                lk'.found = (IF lk'.id \in running \/ InHistory(lk'.id)
                             THEN lk'.id ELSE 0)
          /\ lk'.op = "list" =>
                LET n == Cardinality(running)
                    pass(x) == lk'.filter = "none" \/ res[x].status = lk'.filter
                    all == [k \in 1 .. n + Len(history) |->
                              IF k <= n
                              THEN CHOOSE i \in running :
                                      Cardinality({j \in running : j <= i}) = k
                              ELSE history[k - n]]
                IN  lk'.list = SelectSeq(all, pass)]_vars

\* A list call with filter returned a Result of history while another
\* experiment was running.
C27_Witness ==
    /\ lk.op = "list" /\ lk.filter = "aborted"
    /\ Len(lk.list) >= 1
    /\ running # {}

\* ---------------------------------------------------------------- agent.py
\* Longest argument list given to agent.py.
MaxArgs == 3

\* Command-line arguments: the flag, a prefix of it that argparse takes for
\* the flag, the help option argparse adds, and an option the parser does not
\* know.
Arguments == {"--metrics", "--met", "--help", "--verbose"}

ArgLists == UNION {[1 .. n -> Arguments] : n \in 0 .. MaxArgs}

\* Line 8, parser.parse_args(): the arguments are read from left to right;
\* --help prints the usage and exits with 0 where it stands; unknown options
\* are collected and make the parser exit with 2 at the end; else the
\* namespace holds metrics.
RECURSIVE ParseArgs(_, _, _)
ParseArgs(argv, metrics, unknown) ==
    IF argv = <<>>
    THEN IF unknown THEN [exit |-> 2, metrics |-> FALSE]
         ELSE [exit |-> -1, metrics |-> metrics]
    ELSE IF Head(argv) = "--help" THEN [exit |-> 0, metrics |-> FALSE]
    ELSE IF Head(argv) \in {"--metrics", "--met"}
         THEN ParseArgs(Tail(argv), TRUE, unknown)
    ELSE ParseArgs(Tail(argv), metrics, TRUE)

\* Lines 14-17: the result printed at line 19; accuracy 0.99 is kept in
\* percent.
ResultMutAlways(metrics) ==
    [exit |-> 0, printed |-> "result", status |-> "success",
     has_metrics |-> TRUE, inference_time_ms |-> 42,
     accuracy_percent |-> 99]
Result(metrics) ==
    [exit |-> 0, printed |-> "result", status |-> "success",
     has_metrics |-> metrics,
     inference_time_ms |-> IF metrics THEN 42 ELSE 0,
     accuracy_percent |-> IF metrics THEN 99 ELSE 0]

\* Lines 5-19: main() on the argument list argv.
Main(argv) ==
    LET args == ParseArgs(argv, FALSE, FALSE)
    IN  IF args.exit = 0 THEN [NoOutput EXCEPT !.printed = "usage"]
        ELSE IF args.exit = 2 THEN [NoOutput EXCEPT !.exit = 2]
        ELSE Result(args.metrics)

InitAgent ==
    /\ InitEngine
    /\ pk = PkIdle /\ ss = SsIdle /\ ar = ArIdle /\ lk = LkIdle
    /\ ag \in [argv : ArgLists, done : {FALSE}, out : {NoOutput}]

\* One invocation of agent.py.
Agent ==
    /\ ~ag.done
    /\ ag' = [ag EXCEPT !.done = TRUE, !.out = Main(ag.argv)]
    /\ UNCHANGED <<engineVars, pk, ss, ar, lk>>

SpecAgent == InitAgent /\ [][Agent]_vars

\* The flag, or a prefix argparse accepts for it, is among the arguments.
MetricsGiven(argv) ==
    \E k \in DOMAIN argv : argv[k] \in {"--metrics", "--met"}

Awaiting(e) ==
    \/ pc[e] \in {"validate", "validate_after"} /\ cfg[e].hyp
    \/ pc[e] \in {"metrics", "recover", "f_recover"}

\* The awaited call suspends run_experiment(e) and the event loop is free.
Yield(e) ==
    /\ Holds(e)
    /\ Awaiting(e)
    /\ active' = 0
    /\ UNCHANGED <<pc, cfg, res, running, history, exc, polls, calls,
                   abortRets, aux>>

\* The awaited call is over and run_experiment(e) is resumed.
Resume(e) ==
    /\ active = 0
    /\ Awaiting(e)
    /\ active' = e
    /\ UNCHANGED <<pc, cfg, res, running, history, exc, polls, calls,
                   abortRets, aux>>

NextAwait ==
    \/ Next
    \/ \E e \in Ids : Yield(e)
    \/ \E e \in Ids : Resume(e)

SpecAwait == Init /\ [][NextAwait]_vars

C31_ErrorsIsolatedPerRule ==
    [][(ar'.ticks = ar.ticks + 1 /\ ar'.raised) =>
          \A i \in DOMAIN ar.rules :
              /\ TimesCalled(ar'.log, "condition", ar.rules[i].name) = 1
              /\ Condition(ar.rules[i], ar'.metrics) = "true" =>
                    TimesCalled(ar'.log, "action", ar.rules[i].name) = 1]_vars

\* C32: pod-kill deletes the first N pods of the listing, in listing order,
\* N being max(1, floor(n*p/100)), and the killed_pods list of its record is
\* exactly the names deleted, in that order; an injection cut short by a
\* failing delete call has deleted a shorter prefix.
C32_KilledPodsArePrefix ==
    pk.done =>
        /\ Len(pk.out.names) <= pk.n
        /\ \A i \in DOMAIN pk.out.names : pk.out.names[i] = i
        /\ pk.out.ok =>
              /\ Len(pk.out.names) = Max(1, FloorPct(pk.n, pk.p))
              /\ pk.out.rec[1].killed_pods = pk.out.names

\* Two of five listed pods were deleted and recorded.
C32_Witness ==
    /\ pk.done /\ pk.out.ok
    /\ pk.n = 5
    /\ pk.out.rec[1].killed_pods = <<1, 2>>
    /\ pk.out.names = <<1, 2>>

\* The record type the dispatch is to answer a failure kind with.
RecoveryTypeOf(kind) ==
    CASE kind = "pod_kill" -> "pod_recovery"
      [] kind \in {"network_delay", "network_partition"} -> "network_recovery"
      [] kind \in {"cpu_stress", "memory_stress"} -> "resource_recovery"
      [] OTHER -> "no_recovery_needed"

\* C33: every record the recovery dispatch returns has the type that belongs
\* to the kind of the injected-failure record (pod_recovery after the wait
\* for a pod_kill, network_recovery, resource_recovery, no_recovery_needed
\* for any other kind), and a dispatch that is answered at once always
\* yields a record.
C33_RecoveryDispatch ==
    /\ \A k \in (FailureType \cup {"unknown"}) \ {"pod_kill"} :
          RecoveryRecord(k).type = RecoveryTypeOf(k)
    /\ \A e \in Ids :
          res[e].injected # <<>> =>
              /\ \A k \in DOMAIN res[e].recovery :
                    res[e].recovery[k].type
                        = RecoveryTypeOf(LastFailure(e).type)
              /\ LastFailure(e).type # "pod_kill" =>
                    Len(res[e].recovery) = calls[e].recover

\* One run returned with a pod_recovery record, another with a
\* resource_recovery record.
C33_Witness ==
    \E e, d \in Ids :
        /\ Returned(e) /\ Returned(d)
        /\ Len(res[e].recovery) = 1 /\ Len(res[d].recovery) = 1
        /\ res[e].recovery[1].type = "pod_recovery"
        /\ res[d].recovery[1].type = "resource_recovery"

\* The checks of type `type` in a returned verdict.
ChecksOf(type) == SelectSeq(ss.out.checks, LAMBDA c : c.type = type)

\* C34: a service_availability check that got a response is valid exactly
\* when the status code of the response is the expected one, and it reports
\* that status code; a response of 503 where 200 is expected gives valid
\* false with status code 503, and the aggregate verdict is then false.
C34_ServiceValidIffExpected ==
    (ss.done /\ ~ss.out.raised /\ Present(ss.hyp, "service_availability")) =>
        /\ Len(ChecksOf("service_availability")) = 1
        /\ LET c == ChecksOf("service_availability")[1]
               expected == ss.hyp.service_availability.expected_status
           IN  /\ ~ss.world.response_raises =>
                     /\ c.valid <=> ss.world.status_code = expected
                     /\ c.observed = ss.world.status_code
                     /\ (ss.world.status_code = 503 /\ expected = 200) =>
                           (~c.valid /\ c.observed = 503 /\ ~ss.out.valid)
               /\ ~c.valid => ~ss.out.valid

\* The service answered 503 where 200 was expected, the pod-health check of
\* the same hypothesis was valid, and the verdict is invalid.
C34_Witness ==
    /\ ss.done /\ ~ss.out.raised
    /\ ss.hyp.service_availability.shape = "mapping"
    /\ ss.hyp.service_availability.expected_status = 200
    /\ ~ss.world.response_raises /\ ss.world.status_code = 503
    /\ Len(ss.out.checks) = 2
    /\ ss.out.checks[1].type = "pod_health" /\ ss.out.checks[1].valid
    /\ ss.out.checks[2].observed = 503 /\ ~ss.out.checks[2].valid
    /\ ~ss.out.valid

\* The listed pods that are Running and have no Ready condition whose status
\* is not "True".
RunningAndReady ==
    {i \in DOMAIN ss.world.pods :
        /\ ss.world.pods[i].phase = "Running"
        /\ ss.world.pods[i].ready \notin {"False", "Unknown"}}

\* C35: a pod_health check whose list call returned is valid exactly when
\* the pods that are Running with all Ready conditions true number at least
\* min_replicas; a Running pod whose Ready condition is not true is not
\* counted.
C35_PodHealthCountsReady ==
    (ss.done /\ ~ss.out.raised /\ Present(ss.hyp, "pod_health")
       /\ ~ss.world.pods_raise) =>
        /\ Len(ChecksOf("pod_health")) = 1
        /\ LET c == ChecksOf("pod_health")[1]
           IN  /\ c.observed = Cardinality(RunningAndReady)
               /\ c.valid <=>
                     Cardinality(RunningAndReady)
                         >= ss.hyp.pod_health.min_replicas

\* Two pods are Running, one of them is not Ready, two are required: the
\* check counts one pod and is invalid.
C35_Witness ==
    /\ ss.done /\ ~ss.out.raised
    /\ ss.hyp.pod_health.shape = "mapping"
    /\ ss.hyp.pod_health.min_replicas = 2
    /\ Len(ss.world.pods) = 2
    /\ \A i \in 1 .. 2 : ss.world.pods[i].phase = "Running"
    /\ ss.world.pods[1].ready = "True" /\ ss.world.pods[2].ready = "False"
    /\ ss.out.checks[1].type = "pod_health"
    /\ ss.out.checks[1].observed = 1 /\ ~ss.out.checks[1].valid

\* The step is one of run_experiment for a, or an abort_experiment(a) call.
StepOf(a) ==
    \/ a \in Ids /\ (pc'[a] # pc[a] \/ calls'[a] # calls[a])
    \/ abortRets'[a] # abortRets[a]

\* C36: every step of run or abort is made for one id and leaves the Result
\* of every other id, and that id's membership in running and in history,
\* as they were.
C36_ExperimentsIndependent ==
    [][\E a \in Ids \cup {Ghost} :
          /\ StepOf(a)
          /\ \A d \in Ids \ {a} :
                /\ ~StepOf(d)
                /\ res'[d] = res[d]
                /\ (d \in running') <=> (d \in running)
                /\ {k \in DOMAIN history' : history'[k] = d}
                      = {k \in DOMAIN history : history[k] = d}]_vars

\* Two experiments were running at once; one was aborted and the other
\* went on to return COMPLETED.
C36_Witness ==
    \E e, d \in Ids :
        /\ e # d
        /\ AbortedTrue(e) /\ d < e
        /\ pc[e] = "sleep"
        /\ Returned(d) /\ res[d].status = "completed"
        /\ ~AbortedTrue(d)

\* C37: a run with a hypothesis whose injection, dwell, metrics collection
\* and recovery succeeded ends COMPLETED with the after-verdict stored, valid
\* or not; the after-verdict is stored on no run that failed before the
\* second validation, and on no run without hypothesis.
C37_AfterVerdictRecordedOnly ==
    \A e \in Ids :
        /\ (pc[e] \in {"finally", "done"} /\ res[e].before = "valid"
              /\ res[e].error = NoError) =>
              /\ res[e].after \in {"valid", "invalid"}
              /\ res[e].metrics
              /\ Len(res[e].injected) = 1 /\ Len(res[e].recovery) = 1
              /\ Returned(e) => res[e].status = "completed"
        /\ res[e].after # "none" =>
              /\ res[e].before = "valid"
              /\ res[e].error = NoError
              /\ res[e].metrics
              /\ Len(res[e].recovery) = 1
              /\ pc[e] \in {"finally", "done"}

\* A run returned COMPLETED although its after-verdict is invalid.
C37_Witness ==
    \E e \in Ids :
        /\ Returned(e)
        /\ res[e].before = "valid" /\ res[e].after = "invalid"
        /\ res[e].status = "completed"
====
